---- MODULE Spec2Model ----
(***************************************************************************)
(* Product Importer: the CSV import pipeline (app/tasks.py), the product   *)
(* and webhook tables (app/models.py) and the HTTP handlers (app/main.py)  *)
(* as a state machine.                                                     *)
(*                                                                         *)
(* Strings are sequences of character codes, so that lower() and strip()   *)
(* are computed and not assumed.  The product table is the COMMITTED       *)
(* content of the database; a session's pending work lives in the job that *)
(* owns the session until its commit.                                      *)
(***************************************************************************)
EXTENDS Integers, Sequences, FiniteSets, TLC

VARIABLES
    products,     \* committed rows of table "products"
    nextId,       \* next primary key of "products"
    webhooks,     \* committed rows of table "webhooks"
    nextHookId,   \* next primary key of "webhooks"
    dispatches,   \* one record per run of trigger_webhooks, in order
    job,          \* job[j]: one invocation of process_csv_upload
    http,         \* the last HTTP response produced by a handler of main.py
    faults,       \* storage errors the environment may still raise
    ops           \* HTTP requests the clients may still send

vars == <<products, nextId, webhooks, nextHookId, dispatches, job, http, faults, ops>>

----------------------------------------------------------------------------
(* Bounds of the model *)

MaxFaults == 3        \* storage errors (OperationalError) over one behaviour
MaxOps == 2           \* HTTP requests over one behaviour

Jobs == {1, 2}

----------------------------------------------------------------------------
(* Program constants *)

batch_size == 50                 \* tasks.py:28
max_retries == 3                 \* tasks.py:86
trigger_webhooks_params == 2     \* tasks.py:139: (event_type, data)

\* Python's None, for a cell csv.DictReader fills with restval, and for an
\* optional request field that was not sent.
NoneVal == <<-1>>
\* SQL NULL in the numeric column "price".
NoPrice == -1

----------------------------------------------------------------------------
(* Strings *)

\* func.lower / str.lower on ASCII
Lower(s) == [i \in 1..Len(s) |-> IF s[i] \in 65..90 THEN s[i] + 32 ELSE s[i]]

IsSpace(c) == c \in {9, 10, 11, 12, 13, 32}

RECURSIVE LStrip(_)
LStrip(s) == IF s # <<>> /\ IsSpace(Head(s)) THEN LStrip(Tail(s)) ELSE s

RECURSIVE RStrip(_)
RStrip(s) ==
    IF s # <<>> /\ IsSpace(s[Len(s)]) THEN RStrip(SubSeq(s, 1, Len(s) - 1)) ELSE s

\* str.strip()
Strip(s) == RStrip(LStrip(s))

----------------------------------------------------------------------------
(* CSV input: what csv.DictReader yields.  A row is a mapping from the     *)
(* header's column names to cells; a cell the line does not have is None.  *)

A1 == <<65, 49>>
a1 == <<97, 49>>
B2 == <<66, 50>>
A1Padded == <<32, 65, 49, 32>>
Widget == <<87>>
WidgetUpdated == <<87, 85>>
Gadget == <<71>>
Empty == <<>>
Blank == <<32>>
Descr == <<100>>
Five == <<53>>

Row2(s, n) == [sku |-> s, name |-> n]
Row3(s, n, d) == [sku |-> s, name |-> n, description |-> d]
Row4(s, n, d, p) == [sku |-> s, name |-> n, description |-> d, price |-> p]

\* "S01", "S02", ...: pairwise distinct under case-folding
SerialSku(i) == <<83, 48 + (i \div 10), 48 + (i % 10)>>
SerialRows(n) == [i \in 1..n |-> Row2(SerialSku(i), Widget)]

CsvFiles == <<
    <<Row2(A1, Widget)>>,                                   \* 1
    <<Row2(A1, Widget), Row2(A1, WidgetUpdated)>>,          \* 2
    <<Row3(a1, Gadget, Descr)>>,                            \* 3
    <<Row2(A1Padded, Widget), Row2(B2, Gadget)>>,           \* 4
    <<Row2(A1, Blank), Row2(B2, Gadget)>>,                  \* 5: first row has no name
    <<Row3(A1, Widget, Empty), Row3(B2, NoneVal, NoneVal)>>,\* 6: second line is short
    <<[name |-> Widget, description |-> Descr]>>,           \* 7: no sku column
    <<>>,                                                   \* 8: header only
    <<Row4(a1, WidgetUpdated, Descr, Five)>>,               \* 9: with a price column
    SerialRows(batch_size + 1),                             \* 10: more than one batch
    \* 11: the row after the first batch repeats the first batch's first SKU
    SerialRows(batch_size) \o <<Row2(SerialSku(1), WidgetUpdated)>>
>>

FileIds == DOMAIN CsvFiles

\* row.get(col, '')
Get(row, col) == IF col \in DOMAIN row THEN row[col] ELSE Empty

\* One pass of the loop body of process_csv_upload, lines 32-43: "raise" when
\* .strip() is called on None, "skip" on the continue, else the tuple appended.
Normalize(row) ==
    LET sku == Get(row, "sku")
        name == Get(row, "name")
        description == Get(row, "description")
    IN  IF NoneVal \in {sku, name, description}
        THEN [kind |-> "raise"]
        ELSE IF Strip(sku) = Empty \/ Strip(name) = Empty
        THEN [kind |-> "skip"]
        ELSE [kind |-> "row",
              data |-> [sku |-> Strip(sku), name |-> Strip(name),
                        description |-> Strip(description)]]

\* The for loop of process_csv_upload from row idx + 1 on, up to the next call of
\* upsert_products_batch (lines 31-47), the end of the input, or an exception.
RECURSIVE ReadLoop(_, _, _)
ReadLoop(rows, idx, batch) ==
    IF idx = Len(rows)
    THEN [idx |-> idx, batch |-> batch, out |-> "eof"]
    ELSE LET n == Normalize(rows[idx + 1])
         IN  CASE n.kind = "raise" -> [idx |-> idx + 1, batch |-> batch, out |-> "raise"]
               [] n.kind = "skip" -> ReadLoop(rows, idx + 1, batch)
               [] OTHER ->
                    LET b == Append(batch, n.data)
                    IN  IF Len(b) >= batch_size
                        THEN [idx |-> idx + 1, batch |-> b, out |-> "flush"]
                        ELSE ReadLoop(rows, idx + 1, b)

----------------------------------------------------------------------------
(* The product table and a session on it *)

ProductIds(rows) == {p.id : p \in rows}

\* SkuTaken without the index on lower(sku)
SkuTakenCaseSensitive(sku, rows) == \E p \in rows : p.sku = sku

\* The uniqueness the storage layer enforces on "products": the unique column
\* sku (models.py:10) and the unique index on lower(sku) (models.py:19).
SkuTaken(sku, rows) ==
    \E p \in rows : p.sku = sku \/ Lower(p.sku) = Lower(sku)

\* SessionLocal() of app/database.py.  Whether a query first flushes the session's
\* pending objects is that module's choice.
autoflush == TRUE

\* A fresh session: ins are the objects given to db.add, of which the first
\* flushed have had their INSERT sent; objs are the rows loaded by a query with
\* the attributes assigned since (dirty names the assigned columns).
NewSession == [ins |-> <<>>, flushed |-> 0, objs |-> {}]

\* What sending the INSERTs of ins[from..] and the UPDATEs of the dirty objects
\* raises against the committed rows.
FlushError(tx, rows, from) ==
    IF \E i \in from..Len(tx.ins) :
            \/ SkuTaken(tx.ins[i].sku, rows)
            \/ \E k \in 1..(i - 1) : SkuTaken(tx.ins[i].sku, {tx.ins[k]})
    THEN "IntegrityError"
    ELSE IF \E o \in tx.objs : o.dirty # {} /\ o.row.id \notin ProductIds(rows)
    THEN "StaleDataError"
    ELSE "ok"

\* The session after a flush that raised nothing.
Flushed(tx) == [tx EXCEPT !.flushed = Len(tx.ins)]

\* QueryBySku comparing the SKUs as they are written
QueryBySkuExact(sku, rows) ==
    LET hit == {p \in rows : p.sku = sku}
    IN  IF hit = {} THEN 0 ELSE (CHOOSE p \in hit : \A q \in hit : p.id <= q.id).id

\* db.query(Product).filter(func.lower(Product.sku) == func.lower(sku)).first()
\* on the committed rows: the matching row's id, or 0.
QueryBySku(sku, rows) ==
    LET hit == {p \in rows : Lower(p.sku) = Lower(sku)}
    IN  IF hit = {} THEN 0 ELSE (CHOOSE p \in hit : \A q \in hit : p.id <= q.id).id

\* The same query on the session's own flushed inserts: an index of tx.ins, or 0.
QueryPending(sku, tx) ==
    LET hit == {i \in DOMAIN tx.ins : Lower(tx.ins[i].sku) = Lower(sku)}
    IN  IF hit = {} \/ ~autoflush THEN 0 ELSE CHOOSE i \in hit : \A k \in hit : i <= k

\* The session's object for committed row p: the one already loaded, else p itself.
Loaded(tx, p) ==
    IF \E o \in tx.objs : o.row.id = p.id
    THEN CHOOSE o \in tx.objs : o.row.id = p.id
    ELSE [row |-> p, dirty |-> {}]

\* Assigning value v to attribute col of a loaded object.
SetAttr(o, col, v) ==
    IF o.row[col] = v THEN o
    ELSE [row |-> [o.row EXCEPT ![col] = v], dirty |-> o.dirty \cup {col}]

\* tasks.py:100-105, the update branch, on a committed row
UpdateExisting(tx, p, data) ==
    LET o0 == Loaded(tx, p)
        o1 == SetAttr(o0, "name", data.name)
        o2 == SetAttr(o1, "description", data.description)
        o3 == SetAttr(o2, "is_active", TRUE)
    IN  [tx EXCEPT !.objs = {o \in tx.objs : o.row.id # p.id} \cup {o3}]

\* tasks.py:100-105, the update branch, on an object this session has added
UpdatePending(tx, i, data) ==
    [tx EXCEPT !.ins[i].name = data.name,
               !.ins[i].description = data.description,
               !.ins[i].is_active = TRUE]

\* tasks.py:107-115, the insert branch: Product(sku, name, description, is_active)
AddNew(tx, data) ==
    [tx EXCEPT !.ins = Append(@, [sku |-> data.sku, name |-> data.name,
                                  description |-> data.description,
                                  price |-> NoPrice, is_active |-> TRUE])]

\* The committed table after the commit of tx: the UPDATEs of the dirty columns,
\* then the INSERTs with fresh primary keys from id0 on.
ApplyUpdates(tx, rows) ==
    {IF \E o \in tx.objs : o.row.id = p.id
     THEN LET o == CHOOSE x \in tx.objs : x.row.id = p.id
          IN  [c \in DOMAIN p |-> IF c \in o.dirty THEN o.row[c] ELSE p[c]]
     ELSE p : p \in rows}

WithId(r, id) ==
    [id |-> id, sku |-> r.sku, name |-> r.name, description |-> r.description,
     price |-> r.price, is_active |-> r.is_active]

\* ApplyCommit making only the first INSERT durable
ApplyCommitFirst(tx, rows, id0) ==
    ApplyUpdates(tx, rows) \cup {WithId(tx.ins[i], id0 + i - 1) : i \in DOMAIN tx.ins \cap {1}}

ApplyCommit(tx, rows, id0) ==
    ApplyUpdates(tx, rows) \cup {WithId(tx.ins[i], id0 + i - 1) : i \in DOMAIN tx.ins}

----------------------------------------------------------------------------
(* trigger_webhooks (tasks.py:139-157) *)

\* What one POST does: a 2xx or a non-2xx response (neither raises), or an
\* exception of httpx (timeout, connection error).
Outcomes == {"2xx", "non2xx", "raise"}

\* Subscribers without the filter on is_enabled
SubscribersAnyState(event_type, table) ==
    {w \in table : w.event_type = event_type}

\* tasks.py:143-146: the subscribers of event_type
Subscribers(event_type, table) ==
    {w \in table : w.event_type = event_type /\ w.is_enabled = TRUE}

RECURSIVE ById(_)
ById(set) ==
    IF set = {} THEN <<>>
    ELSE LET w == CHOOSE x \in set : \A y \in set : x.id <= y.id
         IN  <<w>> \o ById(set \ {w})

\* DeliverAll with the try around the loop: the first exception ends it
RECURSIVE DeliverUntilRaise(_, _, _, _)
DeliverUntilRaise(hooks, event_type, data, outcome) ==
    IF hooks = <<>> THEN <<>>
    ELSE <<[hook |-> Head(hooks).id, url |-> Head(hooks).url,
            body |-> [event |-> event_type, data |-> data],
            outcome |-> outcome[Head(hooks).id]]>>
         \o IF outcome[Head(hooks).id] = "raise" THEN <<>>
            ELSE DeliverUntilRaise(Tail(hooks), event_type, data, outcome)

\* tasks.py:148-153: the delivery loop over the fetched subscribers; the
\* exception of one POST is caught inside the loop.
RECURSIVE DeliverAll(_, _, _, _)
DeliverAll(hooks, event_type, data, outcome) ==
    IF hooks = <<>> THEN <<>>
    ELSE <<[hook |-> Head(hooks).id, url |-> Head(hooks).url,
            body |-> [event |-> event_type, data |-> data],
            outcome |-> outcome[Head(hooks).id]]>>
         \o DeliverAll(Tail(hooks), event_type, data, outcome)

\* What the POSTs of one run may do, one outcome per subscriber.
PostOutcomes(event_type, fetched) ==
    [{w.id : w \in IF fetched THEN Subscribers(event_type, webhooks) ELSE {}}
        -> Outcomes]

\* Whether the query for the subscribers returns: it may raise while the
\* environment has a storage error left.
Fetches == IF faults > 0 THEN BOOLEAN ELSE {TRUE}

\* One run of trigger_webhooks: fetched is whether the query for the
\* subscribers returned (else the outer except logs and nothing is sent).
TriggerWebhooks(j, event_type, data, fetched, outcome) ==
    [job |-> j, event |-> event_type, data |-> data, fetched |-> fetched,
     table |-> webhooks,
     posts |-> IF fetched
               THEN DeliverAll(ById(Subscribers(event_type, webhooks)),
                               event_type, data, outcome)
               ELSE <<>>]

----------------------------------------------------------------------------
(* process_csv_upload (tasks.py:19-84) and upsert_products_batch (86-137) *)

NoResult == [status |-> "none"]

IdleJob(f) ==
    [pc |-> "idle", csv |-> f, idx |-> 0, batch |-> <<>>,
     processed |-> 0, created |-> 0, updated |-> 0,
     ret |-> "loop", retry |-> 0, bcreated |-> 0, bupdated |-> 0, pos |-> 0,
     tx |-> NewSession, result |-> NoResult,
     \* history, not program state:
     start |-> {}, final |-> {}, alone |-> TRUE, errors |-> 0, lost |-> 0,
     raised |-> "none", exc |-> "none",
     \* batches given up after max_retries attempts; rows inserted and rows
     \* updated by the transactions this job committed
     exhausted |-> 0, ins |-> 0, upd |-> 0,
     \* calls of upsert_products_batch that have returned
     batches |-> 0]

Rows(j) == CsvFiles[job[j].csv]

Running(r) == r.pc \notin {"idle", "done"}

\* A commit by writer w that changed the table was seen by every other running job.
Disturb(jobs, w, changed) ==
    [k \in Jobs |-> IF changed /\ k # w /\ Running(jobs[k])
                    THEN [jobs[k] EXCEPT !.alone = FALSE] ELSE jobs[k]]

\* Complete with the total summed from the counts
CompleteSummed(r) ==
    [status |-> "Complete",
     message |-> <<"Successfully processed", r.processed, r.created, r.updated>>,
     total |-> r.created + r.updated, created |-> r.created, updated |-> r.updated]

\* tasks.py:70-76
Complete(r) ==
    [status |-> "Complete",
     message |-> <<"Successfully processed", r.processed, r.created, r.updated>>,
     total |-> r.processed, created |-> r.created, updated |-> r.updated]

\* tasks.py:78-84
Failed(e) == [status |-> "Failed", message |-> <<"Error: ", e>>, total |-> 0]

\* The call upsert_products_batch(batch) from return point ret
CallUpsert(r, ret) ==
    [r EXCEPT !.pc = "batch", !.ret = ret, !.retry = 0, !.bcreated = 0,
              !.bupdated = 0, !.pos = 0, !.tx = NewSession]

\* Except that lets the exception through
ExceptReraised(r, e) == [r EXCEPT !.pc = "raised"]

\* tasks.py:78-84: exception e of the try block reaches the except clause.
Except(r, e) == [r EXCEPT !.pc = "done", !.result = Failed(e)]

\* str(e) of the AttributeError of None.strip()
NoStrip == "'NoneType' object has no attribute 'strip'"

\* process_csv_upload is called with the file's content (from "idle"), or its
\* for loop goes on after a flush (from "read"): the loop up to its next flush,
\* the end of the input or an exception.
Read(j) ==
    /\ job[j].pc \in {"idle", "read"}
    /\ LET r == IF job[j].pc = "idle" THEN [job[j] EXCEPT !.start = products]
                ELSE job[j]
           l == ReadLoop(Rows(j), r.idx, r.batch)
           r1 == [r EXCEPT !.idx = l.idx, !.batch = l.batch]
       IN  job' = [job EXCEPT ![j] =
                CASE l.out = "raise" ->
                        Except([r1 EXCEPT !.exc = NoStrip, !.final = products],
                               NoStrip)
                  [] l.out = "flush" -> CallUpsert(r1, "loop")
                  [] l.batch # <<>> -> CallUpsert(r1, "final")
                  [] OTHER -> [r1 EXCEPT !.pc = "webhooks"]]
    /\ UNCHANGED <<products, nextId, webhooks, nextHookId, dispatches, http, faults, ops>>

\* The progress snapshots job r has written for the pollers: between the
\* return of upsert_products_batch and the next row (tasks.py:47-54, 58-61)
\* nothing is written anywhere but to the local counters.
Snapshots(r) == <<>>

\* Return to the loop with the rows of the batch still in the list
ReturnKeepsBatch(r, c, u) ==
    LET r1 == [r EXCEPT !.created = @ + c, !.updated = @ + u,
                        !.processed = @ + Len(r.batch), !.tx = NewSession,
                        !.batches = @ + 1]
    IN  IF r.ret = "loop"
        THEN [r1 EXCEPT !.pc = "read"]
        ELSE [r1 EXCEPT !.pc = "webhooks"]

\* upsert_products_batch returns counts c and u to line 47 or line 58.
Return(r, c, u) ==
    LET r1 == [r EXCEPT !.created = @ + c, !.updated = @ + u,
                        !.processed = @ + Len(r.batch), !.tx = NewSession,
                        !.batches = @ + 1]
    IN  IF r.ret = "loop"
        THEN [r1 EXCEPT !.pc = "read", !.batch = <<>>]
        ELSE [r1 EXCEPT !.pc = "webhooks"]

\* Every exception handled as the OperationalError is: retried while attempts
\* are left
AbortRetried(r, e) ==
    IF r.retry < max_retries - 1
    THEN [r EXCEPT !.retry = @ + 1, !.pos = 0, !.tx = NewSession, !.raised = e]
    ELSE [Return(r, 0, 0) EXCEPT !.lost = @ + 1, !.raised = e]

\* tasks.py:126-133: after exception e, rollback and give the batch up
Abort(r, e) ==
    [Return(r, 0, 0) EXCEPT !.lost = @ + 1, !.raised = e,
                            !.errors = IF e = "OperationalError" THEN @ + 1 ELSE @,
                            !.exhausted = IF e = "OperationalError" THEN @ + 1 ELSE @]

\* One pass of the loop of tasks.py:94-115 over batch[pos + 1].
UpsertRow(j) ==
    /\ job[j].pc = "batch"
    /\ job[j].pos < Len(job[j].batch)
    /\ LET r == job[j]
           data == r.batch[r.pos + 1]
           err == IF autoflush THEN FlushError(r.tx, products, r.tx.flushed + 1)
                  ELSE "ok"
           tx == IF autoflush THEN Flushed(r.tx) ELSE r.tx
           id == QueryBySku(data.sku, products)
           i == QueryPending(data.sku, tx)
       IN  job' = [job EXCEPT ![j] =
                IF err # "ok" THEN Abort(r, err)
                ELSE IF id # 0
                THEN [r EXCEPT !.pos = @ + 1, !.bupdated = @ + 1,
                        !.tx = UpdateExisting(tx,
                                   CHOOSE p \in products : p.id = id, data)]
                ELSE IF i # 0
                THEN [r EXCEPT !.pos = @ + 1, !.bupdated = @ + 1,
                        !.tx = UpdatePending(tx, i, data)]
                ELSE [r EXCEPT !.pos = @ + 1, !.bcreated = @ + 1,
                        !.tx = AddNew(tx, data)]]
    /\ UNCHANGED <<products, nextId, webhooks, nextHookId, dispatches, http, faults, ops>>

\* tasks.py:117-118: db.commit() and the return of the counts
Commit(j) ==
    /\ job[j].pc = "batch"
    /\ job[j].pos = Len(job[j].batch)
    /\ LET r == job[j]
           \* the commit flushes; the storage layer holds the uniqueness of
           \* every INSERT of the transaction up to its commit
           err == FlushError(r.tx, products, 1)
           after == ApplyCommit(r.tx, products, nextId)
       IN  IF err # "ok"
           THEN /\ job' = [job EXCEPT ![j] = Abort(r, err)]
                /\ UNCHANGED <<products, nextId>>
           ELSE /\ products' = after
                /\ nextId' = nextId + Len(r.tx.ins)
                /\ job' = [Disturb(job, j, after # products)
                              EXCEPT ![j] =
                                [Return(r, r.bcreated, r.bupdated) EXCEPT
                                    !.ins = @ + Len(r.tx.ins),
                                    !.upd = @ + Len(r.batch) - Len(r.tx.ins)]]
    /\ UNCHANGED <<webhooks, nextHookId, dispatches, http, faults, ops>>

\* OperationalError with the retry going on from the row that failed
OperationalErrorResumes(j) ==
    /\ job[j].pc = "batch"
    /\ faults > 0
    /\ faults' = faults - 1
    /\ LET r == job[j]
       IN  job' = [job EXCEPT ![j] =
                IF r.retry < max_retries - 1
                THEN [r EXCEPT !.retry = @ + 1,
                               !.errors = @ + 1, !.raised = "OperationalError"]
                ELSE Abort(r, "OperationalError")]
    /\ UNCHANGED <<products, nextId, webhooks, nextHookId, dispatches, http, ops>>

\* tasks.py:120-129: a query or the commit raises OperationalError
OperationalError(j) ==
    /\ job[j].pc = "batch"
    /\ faults > 0
    /\ faults' = faults - 1
    /\ LET r == job[j]
       IN  job' = [job EXCEPT ![j] =
                IF r.retry < max_retries - 1
                THEN [r EXCEPT !.retry = @ + 1, !.pos = 0, !.tx = NewSession,
                               !.errors = @ + 1, !.raised = "OperationalError"]
                ELSE Abort(r, "OperationalError")]
    /\ UNCHANGED <<products, nextId, webhooks, nextHookId, dispatches, http, ops>>

\* tasks.py:63-76: trigger_webhooks('product.imported', ...) and the return
Finish(j) ==
    /\ job[j].pc = "webhooks"
    /\ \E fetched \in Fetches :
       \E outcome \in PostOutcomes("product.imported", fetched) :
         LET r == job[j]
             data == [total |-> r.processed, created |-> r.created,
                      updated |-> r.updated]
         IN  /\ dispatches' = Append(dispatches,
                    TriggerWebhooks(j, "product.imported", data, fetched, outcome))
             /\ faults' = IF fetched THEN faults ELSE faults - 1
             /\ job' = [job EXCEPT ![j] =
                    [r EXCEPT !.pc = "done", !.result = Complete(r),
                              !.final = products]]
    /\ UNCHANGED <<products, nextId, webhooks, nextHookId, http, ops>>

----------------------------------------------------------------------------
(* The HTTP handlers of main.py.  A handler runs from its request to its    *)
(* response without yielding, so each is one step.                          *)

ProductPayloads == {
    [sku |-> A1, name |-> Gadget, description |-> Empty, price |-> 9,
     is_active |-> FALSE, unset |-> {}],
    [sku |-> a1, name |-> Widget, description |-> Descr, price |-> NoPrice,
     is_active |-> TRUE, unset |-> {}]
}

\* ProductUpdate: every field is optional; unset names the fields not sent,
\* which product.dict() yields as None.
UpdatePayloads == ProductPayloads \cup {
    [sku |-> B2, name |-> NoneVal, description |-> NoneVal, price |-> NoPrice,
     is_active |-> TRUE, unset |-> {"name", "description", "price"}],
    [sku |-> NoneVal, name |-> Gadget, description |-> Empty, price |-> NoPrice,
     is_active |-> TRUE, unset |-> {"sku"}]
}

WebhookPayloads == {
    [url |-> "http://a", event_type |-> "product.imported", is_enabled |-> TRUE],
    [url |-> "http://b", event_type |-> "product.imported", is_enabled |-> FALSE],
    [url |-> "http://b", event_type |-> "product.created", is_enabled |-> TRUE]
}

Response(op, status, detail, wrote) ==
    [op |-> op, status |-> status, detail |-> detail, wrote |-> wrote]

\* main.py:569, 598, 612 call trigger_webhooks(db, event, data): nargs
\* positional arguments for the parameters of tasks.py:139.
CallRaises(nargs) == nargs # trigger_webhooks_params

\* The tail of a handler after its commit: the call of trigger_webhooks and the
\* response.  An exception of the call leaves the handler as a 500.
AfterCommit(op, event_type, data, nargs) ==
    IF CallRaises(nargs)
    THEN /\ http' = Response(op, 500, "TypeError", TRUE)
         /\ UNCHANGED <<dispatches, faults>>
    ELSE /\ http' = Response(op, 200, "ok", TRUE)
         /\ \E fetched \in Fetches :
            \E outcome \in PostOutcomes(event_type, fetched) :
              /\ dispatches' = Append(dispatches,
                    TriggerWebhooks(0, event_type, data, fetched, outcome))
              /\ faults' = IF fetched THEN faults ELSE faults - 1

\* main.py:554-571
create_product(p) ==
    /\ ops > 0
    /\ ops' = ops - 1
    /\ IF QueryBySku(p.sku, products) # 0
       THEN /\ http' = Response("create_product", 400, "SKU already exists", FALSE)
            /\ UNCHANGED <<products, nextId, job, dispatches, faults>>
       ELSE /\ products' = products \cup {WithId(p, nextId)}
            /\ nextId' = nextId + 1
            /\ job' = Disturb(job, 0, TRUE)
            /\ AfterCommit("create_product", "product.created", [sku |-> p.sku], 3)
    /\ UNCHANGED <<webhooks, nextHookId>>

\* The row update_product commits: every field of product.dict() is assigned.
Assigned(row, p) ==
    [id |-> row.id, sku |-> p.sku, name |-> p.name, description |-> p.description,
     price |-> p.price, is_active |-> p.is_active]

\* main.py:573-600
update_product(id, p) ==
    /\ ops > 0
    /\ ops' = ops - 1
    /\ IF id \notin ProductIds(products)
       THEN /\ http' = Response("update_product", 404, "Product not found", FALSE)
            /\ UNCHANGED <<products, job, dispatches, faults>>
       ELSE LET row == CHOOSE r \in products : r.id = id
            IN  IF "sku" \in p.unset
                THEN \* None.lower()
                     /\ http' = Response("update_product", 500, "AttributeError", FALSE)
                     /\ UNCHANGED <<products, job, dispatches, faults>>
                ELSE IF /\ Lower(p.sku) # Lower(row.sku)
                        /\ QueryBySku(p.sku, products \ {row}) # 0
                THEN /\ http' = Response("update_product", 400, "SKU already exists", FALSE)
                     /\ UNCHANGED <<products, job, dispatches, faults>>
                ELSE IF \/ p.unset \cap {"name", "is_active"} # {}
                        \/ SkuTaken(p.sku, products \ {row})
                THEN \* nullable=False, unique: the commit raises
                     /\ http' = Response("update_product", 500, "IntegrityError", FALSE)
                     /\ UNCHANGED <<products, job, dispatches, faults>>
                ELSE /\ products' = (products \ {row}) \cup {Assigned(row, p)}
                     /\ job' = Disturb(job, 0, Assigned(row, p) # row)
                     /\ AfterCommit("update_product", "product.updated",
                                    [sku |-> p.sku], 3)
    /\ UNCHANGED <<nextId, webhooks, nextHookId>>

\* main.py:602-614
delete_product(id) ==
    /\ ops > 0
    /\ ops' = ops - 1
    /\ IF id \notin ProductIds(products)
       THEN /\ http' = Response("delete_product", 404, "Product not found", FALSE)
            /\ UNCHANGED <<products, job, dispatches, faults>>
       ELSE LET row == CHOOSE r \in products : r.id = id
            IN  /\ products' = products \ {row}
                /\ job' = Disturb(job, 0, TRUE)
                /\ AfterCommit("delete_product", "product.deleted",
                               [sku |-> row.sku], 3)
    /\ UNCHANGED <<nextId, webhooks, nextHookId>>

\* main.py:630-637
create_webhook(w) ==
    /\ ops > 0
    /\ ops' = ops - 1
    /\ webhooks' = webhooks \cup
            {[id |-> nextHookId, url |-> w.url, event_type |-> w.event_type,
              is_enabled |-> w.is_enabled]}
    /\ nextHookId' = nextHookId + 1
    /\ http' = Response("create_webhook", 200, "ok", FALSE)
    /\ UNCHANGED <<products, nextId, dispatches, job, faults>>

\* main.py:639-648
delete_webhook(id) ==
    /\ ops > 0
    /\ ops' = ops - 1
    /\ IF \E w \in webhooks : w.id = id
       THEN /\ webhooks' = {w \in webhooks : w.id # id}
            /\ http' = Response("delete_webhook", 200, "Webhook deleted", FALSE)
       ELSE /\ webhooks' = webhooks
            /\ http' = Response("delete_webhook", 404, "Webhook not found", FALSE)
    /\ UNCHANGED <<products, nextId, nextHookId, dispatches, job, faults>>

\* What the POST of the test may raise when the URL cannot be reached
TestErrors == {"ConnectError", "ConnectTimeout"}

\* TestFailed without the description of the exception
TestFailedUnexplained(e) ==
    Response("test_webhook", 500, <<"Webhook test failed: ", "">>, FALSE)

\* main.py:668-669: the exception of the POST becomes the detail of the answer
TestFailed(e) ==
    Response("test_webhook", 500, <<"Webhook test failed: ", e>>, FALSE)

\* main.py:650-669.  outcome is what the POST to the webhook's URL does: a
\* response of some status, or one of TestErrors.
test_webhook(id, outcome) ==
    /\ ops > 0
    /\ ops' = ops - 1
    /\ http' = IF ~\E w \in webhooks : w.id = id
               THEN Response("test_webhook", 404, "Webhook not found", FALSE)
               ELSE IF outcome \in TestErrors
               THEN TestFailed(outcome)
               ELSE Response("test_webhook", 200,
                             <<"Webhook tested. Status: ", outcome>>, FALSE)
    /\ UNCHANGED <<products, nextId, webhooks, nextHookId, dispatches, job, faults>>

\* main.py:616-623, the handler
bulk_delete_products ==
    /\ products' = {}
    /\ job' = Disturb(job, 0, products # {})
    /\ http' = Response("bulk_delete_products", 200, "Deleted", TRUE)

\* The DELETE routes below /api/products in the order of their declaration
\* (main.py:602, 616).  A path parameter matches any one segment; that it is
\* an int is checked when the matched handler is called.
DeleteRoutes == <<
    [param |-> TRUE, segment |-> "{product_id}", handler |-> "delete_product"],
    [param |-> FALSE, segment |-> "bulk-delete", handler |-> "bulk_delete_products"]
>>

Matches(route, segment) == route.param \/ route.segment = segment

\* The router: the first declared route that matches.
RouteOf(routes, segment) ==
    LET hit == {i \in DOMAIN routes : Matches(routes[i], segment)}
    IN  IF hit = {} THEN "none"
        ELSE routes[CHOOSE i \in hit : \A k \in hit : i <= k].handler

\* DELETE /api/products/bulk-delete
DeleteBulkRequest ==
    /\ ops > 0
    /\ ops' = ops - 1
    /\ CASE RouteOf(DeleteRoutes, "bulk-delete") = "bulk_delete_products" ->
                bulk_delete_products
         [] RouteOf(DeleteRoutes, "bulk-delete") = "delete_product" ->
                \* product_id: int does not parse "bulk-delete"
                /\ http' = Response("delete_product", 422, "product_id is not an integer", FALSE)
                /\ UNCHANGED <<products, job>>
         [] OTHER ->
                /\ http' = Response("none", 404, "Not Found", FALSE)
                /\ UNCHANGED <<products, job>>
    /\ UNCHANGED <<nextId, webhooks, nextHookId, dispatches, faults>>

\* Whether process_csv_upload is a Celery task, that is, has the attribute
\* delay: tasks.py:19 defines a plain function, under no task decorator.
IsCeleryTask == FALSE

\* main.py:477-489.  decodes: the uploaded bytes are UTF-8.  Every exception of
\* the body, the AttributeError of process_csv_upload.delay included, becomes
\* a 500; line 487 is reached by no request.
upload_csv(decodes) ==
    /\ ops > 0
    /\ ops' = ops - 1
    /\ http' = IF ~decodes
               THEN Response("upload_csv", 500, "UnicodeDecodeError", FALSE)
               ELSE IF ~IsCeleryTask
               THEN Response("upload_csv", 500, "AttributeError", FALSE)
               ELSE Response("upload_csv", 200, "Upload started", FALSE)
    /\ UNCHANGED <<products, nextId, webhooks, nextHookId, dispatches, job, faults>>

\* Identifiers a poller may ask for
TaskIds == {"t1", "t2"}

\* celery_app.AsyncResult(task_id).state: PENDING for an id the result
\* backend knows nothing of, and no task is ever sent to it.
TaskState(task_id) == "PENDING"

\* main.py:491-515
upload_status(task_id) ==
    /\ ops > 0
    /\ ops' = ops - 1
    /\ http' = CASE TaskState(task_id) = "PENDING" ->
                    Response("upload_status", 200, "Pending", FALSE)
               [] TaskState(task_id) = "PROGRESS" ->
                    Response("upload_status", 200, "Progress", FALSE)
               [] TaskState(task_id) = "SUCCESS" ->
                    Response("upload_status", 200, "Result", FALSE)
               [] OTHER -> Response("upload_status", 200, "Failed", FALSE)
    /\ UNCHANGED <<products, nextId, webhooks, nextHookId, dispatches, job, faults>>

----------------------------------------------------------------------------
(* The specification *)

\* What one behaviour is given: the files the two jobs are called with, and how
\* many storage errors and HTTP requests may occur.
Scenario(f1, f2, e, o) == [files |-> <<f1, f2>>, faults |-> e, ops |-> o]

Scenarios ==
    {Scenario(f[1], f[2], b[1], b[2]) :
        f \in {<<1, 1>>, <<1, 3>>, <<4, 4>>},
        b \in {<<MaxFaults, 0>>, <<1, 1>>}}
    \cup {Scenario(f, 8, MaxFaults, 0) : f \in {2, 9}}
    \cup {Scenario(2, 8, 0, MaxOps), Scenario(9, 8, 0, 1)}
    \cup {Scenario(1, 4, 0, 0)}
    \cup {Scenario(f, 8, MaxFaults, 0) : f \in {5, 6, 7}}

\* The same with a file of more than one batch.
LongScenarios == Scenarios \cup {Scenario(10, 8, MaxFaults + 1, 0)}

InitWith(scenarios) ==
    /\ products = {}
    /\ nextId = 1
    /\ webhooks = {}
    /\ nextHookId = 1
    /\ dispatches = <<>>
    /\ http = Response("none", 0, "none", FALSE)
    /\ \E s \in scenarios :
        /\ job = [j \in Jobs |-> IdleJob(s.files[j])]
        /\ faults = s.faults
        /\ ops = s.ops

Init == InitWith(Scenarios)

InitLong == InitWith(LongScenarios)

Next ==
    \/ \E j \in Jobs : Read(j)
    \/ \E j \in Jobs : UpsertRow(j)
    \/ \E j \in Jobs : Commit(j)
    \/ \E j \in Jobs : OperationalError(j)
    \/ \E j \in Jobs : Finish(j)
    \/ \E p \in ProductPayloads : create_product(p)
    \/ \E id \in ProductIds(products), p \in UpdatePayloads : update_product(id, p)
    \/ \E id \in ProductIds(products) \cup {nextId} : delete_product(id)
    \/ \E w \in WebhookPayloads : create_webhook(w)
    \/ \E id \in {w.id : w \in webhooks} : delete_webhook(id)
    \/ DeleteBulkRequest
    \/ \E id \in {w.id : w \in webhooks} \cup {nextHookId} :
         \E outcome \in {"2xx", "non2xx"} \cup TestErrors : test_webhook(id, outcome)
    \/ \E decodes \in BOOLEAN : upload_csv(decodes)
    \/ \E task_id \in TaskIds : upload_status(task_id)

Spec == Init /\ [][Next]_vars

\* Spec, with the long file among the inputs
SpecLong == InitLong /\ [][Next]_vars

\* One import of a file of two batches whose second batch meets the first one's
\* SKU again, under storage faults; or HTTP requests beside imports of an empty
\* file.
BatchScenarios == {Scenario(11, 8, MaxFaults, 0), Scenario(8, 8, 0, MaxOps)}

InitBatches == InitWith(BatchScenarios)

SpecBatches == InitBatches /\ [][Next]_vars

----------------------------------------------------------------------------
(* Vocabulary of the properties *)

\* The rows the normalizer accepts, and their case-folded SKUs
ValidRows(rows) == \A i \in DOMAIN rows : Normalize(rows[i]).kind = "row"
Folded(rows, i) == Lower(Normalize(rows[i]).data.sku)
DistinctRows(rows) ==
    /\ ValidRows(rows)
    /\ \A i, k \in DOMAIN rows : i # k => Folded(rows, i) # Folded(rows, k)

ValidFiles == {f \in FileIds : ValidRows(CsvFiles[f])}
DistinctFiles == {f \in FileIds : DistinctRows(CsvFiles[f])}
FoldedSkus == [f \in ValidFiles |-> {Folded(CsvFiles[f], i) : i \in DOMAIN CsvFiles[f]}]

Done(r) == r.pc = "done"

\* Job r lost no batch and no other writer committed while it ran.
Undisturbed(r) == r.alone /\ r.lost = 0

\* Undisturbed, and no query or commit of r raised OperationalError.
Clean(r) == r.alone /\ r.errors = 0 /\ r.lost = 0

\* No product stored when job r started has a SKU of r's file.
Fresh(r) == \A p \in r.start : Lower(p.sku) \notin FoldedSkus[r.csv]

\* The last row of rows whose folded SKU is f
LastRow(rows, f) ==
    rows[CHOOSE i \in DOMAIN rows :
            /\ Folded(rows, i) = f
            /\ \A k \in DOMAIN rows : Folded(rows, k) = f => k <= i]

\* The number a price cell denotes
RECURSIVE Decimal(_)
Decimal(s) == IF s = <<>> THEN 0 ELSE 10 * Decimal(SubSeq(s, 1, Len(s) - 1)) + (s[Len(s)] - 48)

----------------------------------------------------------------------------
(* C1: in every reachable state no two stored products have SKUs that are  *)
(* equal under case-folding.                                                *)
C1_UniqueFoldedSku ==
    \A p, q \in products : p.id # q.id => Lower(p.sku) # Lower(q.sku)

\* A second writer of a folded SKU was turned away by the storage layer.
C1_Witness ==
    \E j \in Jobs : job[j].raised = "IntegrityError" /\ products # {}

\* What C2 says of job r
AllCreated(r) ==
    LET n == Len(CsvFiles[r.csv])
    IN  /\ r.result.status = "Complete"
        /\ r.result.created = n
        /\ r.result.updated = 0
        /\ Cardinality(r.final) = Cardinality(r.start) + n

(* C2: an import of N valid rows with pairwise distinct folded SKUs, none   *)
(* of them stored before, that loses no batch and runs beside no other      *)
(* writer, returns created = N, updated = 0 and adds exactly N products.    *)
C2_AllCreated ==
    \A j \in Jobs :
        LET r == job[j]
        IN  (Done(r) /\ r.csv \in DistinctFiles /\ Undisturbed(r) /\ Fresh(r))
                => AllCreated(r)

\* C2 holds of the imports in which no query or commit raised
\* OperationalError, for files longer than one batch too.
AllCreatedWithoutStorageError ==
    \A j \in Jobs :
        LET r == job[j]
        IN  (Done(r) /\ r.csv \in DistinctFiles /\ Clean(r) /\ Fresh(r))
                => AllCreated(r)

LongFileAllCreated ==
    \E j \in Jobs :
        LET r == job[j]
        IN  /\ Done(r) /\ r.csv \in DistinctFiles /\ Clean(r) /\ Fresh(r)
            /\ Len(CsvFiles[r.csv]) > batch_size
            /\ r.result.created = Len(CsvFiles[r.csv])

\* Job r2 imported the file of r1 right after r1 completed.
RanAgain(r1, r2) ==
    /\ Done(r1) /\ Done(r2)
    /\ r1.csv = r2.csv /\ r1.csv \in DistinctFiles
    /\ Undisturbed(r1) /\ r1.result.status = "Complete"
    /\ r2.start = r1.final

\* What C3 says of the second import
Idempotent(r1, r2) ==
    /\ r2.result.status = "Complete"
    /\ r2.result.created = 0
    /\ r2.result.updated = Len(CsvFiles[r2.csv])
    /\ r2.final = r1.final

(* C3: importing the same file of N valid, fold-distinct rows a second time *)
(* right after the first import returns created = 0, updated = N and leaves *)
(* the stored products as the first import left them.                       *)
C3_SecondRunIdempotent ==
    \A j1, j2 \in Jobs :
        (j1 # j2 /\ RanAgain(job[j1], job[j2]) /\ Undisturbed(job[j2]))
            => Idempotent(job[j1], job[j2])

\* C3 holds when no query or commit of the second import raised
\* OperationalError.
SecondRunWithoutStorageError ==
    \A j1, j2 \in Jobs :
        (j1 # j2 /\ RanAgain(job[j1], job[j2]) /\ Clean(job[j2]))
            => Idempotent(job[j1], job[j2])

SecondRunUpdatedTwo ==
    \E j1, j2 \in Jobs :
        /\ j1 # j2 /\ RanAgain(job[j1], job[j2]) /\ Clean(job[j2])
        /\ job[j2].result.updated = 2

\* What C4 says of job r
RepeatsUpdate(r) ==
    LET rows == CsvFiles[r.csv]
    IN  /\ r.result.status = "Complete"
        /\ r.result.created = Cardinality(FoldedSkus[r.csv])
        /\ r.result.updated = Len(rows) - Cardinality(FoldedSkus[r.csv])
        /\ \A f \in FoldedSkus[r.csv] :
             /\ Cardinality({p \in r.final : Lower(p.sku) = f}) = 1
             /\ \A p \in r.final :
                    Lower(p.sku) = f => p.name = Strip(LastRow(rows, f).name)

(* C4: in an import of valid rows into a table holding none of their SKUs   *)
(* (no batch lost, no other writer), a SKU's first occurrence creates its   *)
(* product and every later occurrence updates it: created is the number of  *)
(* distinct folded SKUs, updated the number of repeats, and each SKU is     *)
(* stored once, under the name of its last occurrence; for A1/Widget,       *)
(* A1/Widget-Updated that is created = 1, updated = 1.                      *)
C4_RepeatedSkuUpdates ==
    \A j \in Jobs :
        LET r == job[j]
        IN  (/\ Done(r) /\ r.csv \in ValidFiles \ DistinctFiles
             /\ Undisturbed(r) /\ Fresh(r))
                => RepeatsUpdate(r)

\* C4 holds of the imports in which no query or commit raised OperationalError.
RepeatsUpdateWithoutStorageError ==
    \A j \in Jobs :
        LET r == job[j]
        IN  (Done(r) /\ r.csv \in ValidFiles /\ Clean(r) /\ Fresh(r))
                => RepeatsUpdate(r)

WidgetUpdatedOnce ==
    \E j \in Jobs :
        LET r == job[j]
        IN  /\ Done(r) /\ r.csv = 2 /\ Clean(r) /\ Fresh(r)
            /\ r.result.created = 1 /\ r.result.updated = 1
            /\ \E p \in r.final : p.sku = A1 /\ p.name = WidgetUpdated

\* What C5 says of job r, but for the price: a row whose folded SKU f was
\* stored updates that product in place, any other row inserts one.
Upserted(r, f) ==
    LET row == LastRow(CsvFiles[r.csv], f)
        old == {p \in r.start : Lower(p.sku) = f}
        new == {p \in r.final : Lower(p.sku) = f}
    IN  /\ Cardinality(new) = 1
        /\ \A p \in new :
            /\ p.name = Strip(row.name)
            /\ p.description = Strip(Get(row, "description"))
            /\ p.is_active = TRUE
            /\ \A q \in old : p.id = q.id /\ p.sku = q.sku
        /\ Cardinality(r.final) =
             Cardinality(r.start) + Cardinality({g \in FoldedSkus[r.csv] :
                \A p \in r.start : Lower(p.sku) # g})

\* The price of the product that was stored under folded SKU f is now the one
\* its row gives.
PriceOverwritten(r, f) ==
    LET row == LastRow(CsvFiles[r.csv], f)
    IN  \A q \in r.start, p \in r.final :
            (/\ Lower(q.sku) = f /\ p.id = q.id
             /\ "price" \in DOMAIN row /\ Strip(row.price) # Empty)
                => p.price = Decimal(Strip(row.price))

(* C5: an imported row whose SKU equals a stored product's under            *)
(* case-folding updates that product and creates no second one: name,       *)
(* description and price are overwritten with the row's values and          *)
(* is_active becomes true; a row matching no product inserts one with       *)
(* is_active true.                                                          *)
C5_MatchOverwrites ==
    \A j \in Jobs :
        LET r == job[j]
        IN  (Done(r) /\ r.csv \in ValidFiles /\ Undisturbed(r)) =>
                \A f \in FoldedSkus[r.csv] : Upserted(r, f) /\ PriceOverwritten(r, f)

\* C5 holds but for the price.
MatchOverwritesButPrice ==
    \A j \in Jobs :
        LET r == job[j]
        IN  (Done(r) /\ r.csv \in ValidFiles /\ Undisturbed(r)) =>
                \A f \in FoldedSkus[r.csv] : Upserted(r, f)

InactiveMatchUpdated ==
    \E j \in Jobs :
        LET r == job[j]
        IN  /\ Done(r) /\ r.csv \in ValidFiles /\ Undisturbed(r)
            /\ r.csv = 3
            /\ \E q \in r.start, p \in r.final :
                /\ q.id = p.id /\ q.sku = A1 /\ p.sku = A1
                /\ ~q.is_active /\ p.is_active /\ p.name = Gadget /\ p.description = Descr

(* C6: process_csv_upload never raises: a job that has ended holds a        *)
(* terminal status, Complete with its total, created and updated counts or  *)
(* Failed with a message, and an exception raised while it ran has become   *)
(* the Failed status whose message carries the exception's description.     *)
C6_NeverRaises ==
    \A j \in Jobs :
        LET r == job[j]
        IN  /\ r.pc \in {"idle", "read", "batch", "webhooks", "done"}
            /\ ~Done(r) => r.result = NoResult
            /\ (Done(r) /\ r.exc = "none") =>
                /\ r.result.status = "Complete"
                /\ DOMAIN r.result = {"status", "message", "total", "created", "updated"}
                /\ {r.result.total, r.result.created, r.result.updated} \subseteq Nat
            /\ (Done(r) /\ r.exc # "none") =>
                /\ r.result.status = "Failed"
                /\ r.result.message = <<"Error: ", r.exc>>

C6_Witness ==
    \E j \in Jobs :
        /\ Done(job[j]) /\ job[j].exc = NoStrip
        /\ job[j].result.status = "Failed"

\* Webhook w is a subscriber of dispatch d.
Subscribed(w, d) == w.event_type = d.event /\ w.is_enabled

PostsTo(d, w) == {i \in DOMAIN d.posts : d.posts[i].hook = w.id}

(* C7: a POST that fails (exception or non-2xx) keeps no other subscriber   *)
(* of the event from its delivery attempt, and nothing of it reaches the    *)
(* import: the job that dispatched has ended Complete with its counts.      *)
C7_FailureIsolated ==
    \A k \in DOMAIN dispatches :
        LET d == dispatches[k]
        IN  /\ (\E i \in DOMAIN d.posts : d.posts[i].outcome # "2xx") =>
                \A w \in d.table : Subscribed(w, d) => PostsTo(d, w) # {}
            /\ d.job \in Jobs =>
                /\ Done(job[d.job])
                /\ job[d.job].result.status = "Complete"
                /\ job[d.job].result.total = job[d.job].processed
                /\ job[d.job].result.created = job[d.job].created
                /\ job[d.job].result.updated = job[d.job].updated

C7_Witness ==
    \E k \in DOMAIN dispatches :
        LET d == dispatches[k]
        IN  /\ d.job \in Jobs
            /\ Len(d.posts) = 2
            /\ d.posts[1].outcome = "raise"
            /\ job[d.job].result.status = "Complete"
            /\ job[d.job].result.created > 0

(* C8: whenever a create, update or delete has committed its product write, *)
(* the call reports success to its caller.                                  *)
C8_CommittedWriteSucceeds ==
    http.wrote => http.status = 200

\* What C9 says of dispatch d
OncePerSubscriber(d) ==
    /\ \A w \in d.table :
         Cardinality(PostsTo(d, w)) = IF Subscribed(w, d) THEN 1 ELSE 0
    /\ \A i \in DOMAIN d.posts :
         /\ d.posts[i].body = [event |-> d.event, data |-> d.data]
         /\ \E w \in d.table : w.id = d.posts[i].hook /\ w.url = d.posts[i].url

(* C9: for one dispatched event trigger_webhooks makes exactly one delivery *)
(* attempt to every webhook registered for exactly that event type and      *)
(* enabled, none to any other webhook, with body {event, data}.             *)
C9_OncePerSubscriber ==
    \A k \in DOMAIN dispatches : OncePerSubscriber(dispatches[k])

(* C9 as amended: that holds whenever the query for the subscribers         *)
(* returns; when the query raises, no delivery attempt is made at all.      *)
C9_OncePerSubscriberIfFetched ==
    \A k \in DOMAIN dispatches :
        LET d == dispatches[k]
        IN  IF d.fetched THEN OncePerSubscriber(d) ELSE d.posts = <<>>

C9_Witness ==
    \E k \in DOMAIN dispatches :
        LET d == dispatches[k]
        IN  /\ d.fetched
            /\ Len(d.posts) = 1
            /\ \E w \in d.table : ~Subscribed(w, d)

DispatchesOf(j) ==
    {k \in DOMAIN dispatches :
        dispatches[k].job = j /\ dispatches[k].event = "product.imported"}

(* C10: an import dispatches product.imported exactly once, when it ends     *)
(* Complete and so after its last batch, with the total, created and        *)
(* updated counts of its result; an import that has not ended, or that      *)
(* ended Failed, has dispatched none.                                       *)
C10_ImportedOnceOnComplete ==
    \A j \in Jobs :
        LET r == job[j]
        IN  IF Done(r) /\ r.result.status = "Complete"
            THEN /\ Cardinality(DispatchesOf(j)) = 1
                 /\ r.idx = Len(CsvFiles[r.csv])
                 /\ \A k \in DispatchesOf(j) :
                        dispatches[k].data =
                            [total |-> r.result.total, created |-> r.result.created,
                             updated |-> r.result.updated]
            ELSE DispatchesOf(j) = {}

C10_Witness ==
    \E j \in Jobs :
        /\ Done(job[j]) /\ job[j].result.status = "Complete"
        /\ job[j].lost > 0
        /\ \E k \in DispatchesOf(j) : dispatches[k].data.total > 0

\* The number of rows of rows that the normalizer accepts
RECURSIVE ValidCount(_)
ValidCount(rows) ==
    IF rows = <<>> THEN 0
    ELSE ValidCount(Tail(rows)) + IF Normalize(Head(rows)).kind = "row" THEN 1 ELSE 0

\* Job r went on after the batch it gave up: every batch of the file was handed
\* to upsert_products_batch and the job ended Complete.
WentOn(r) ==
    /\ r.result.status = "Complete"
    /\ r.idx = Len(CsvFiles[r.csv])
    /\ r.result.total = ValidCount(CsvFiles[r.csv])

\* The counts of the result are those of the transactions the job committed.
CommittedCounts(r) ==
    /\ r.result.created = r.ins
    /\ r.result.updated = r.upd

(* C11: a job one of whose batches exhausted its retries does not abort:     *)
(* every batch of the file is still attempted and the job ends Complete,    *)
(* with created and updated the numbers of rows that the batches which did  *)
(* commit inserted and updated.                                             *)
C11_ExhaustedBatchGoesOn ==
    \A j \in Jobs :
        LET r == job[j]
        IN  (Done(r) /\ r.exhausted > 0) => (WentOn(r) /\ CommittedCounts(r))

\* C11 but for the counts: the job goes on and ends Complete.
ExhaustedBatchGoesOn ==
    \A j \in Jobs :
        LET r == job[j]
        IN  (Done(r) /\ r.exhausted > 0) => WentOn(r)

\* The first batch of the long file was given up, the second committed.
LaterBatchCommitted ==
    \E j \in Jobs :
        LET r == job[j]
        IN  /\ Done(r) /\ r.exhausted = 1 /\ r.csv = 10
            /\ r.result.status = "Complete"
            /\ r.result.total = batch_size + 1
            /\ r.ins = 1 /\ r.result.created = 1

\* The result of job r adds up: total = created + updated.
AddsUp(r) == r.result.total = r.result.created + r.result.updated

(* C12: batch loss is detectable from the terminal result: a job that ended  *)
(* Complete has total # created + updated if it lost a batch (retries        *)
(* exhausted or aborted) and total = created + updated if it lost none.      *)
C12_LossDetectable ==
    \A j \in Jobs :
        LET r == job[j]
        IN  (Done(r) /\ r.result.status = "Complete") =>
                (AddsUp(r) <=> r.lost = 0)

\* C12 holds of the jobs none of whose attempts raised OperationalError.
LossDetectableWithoutStorageError ==
    \A j \in Jobs :
        LET r == job[j]
        IN  (Done(r) /\ r.result.status = "Complete" /\ r.errors = 0) =>
                (AddsUp(r) <=> r.lost = 0)

\* A job aborted a batch on a constraint violation, and its result shows it.
AbortedBatchDetected ==
    \E j \in Jobs :
        LET r == job[j]
        IN  /\ Done(r) /\ r.result.status = "Complete" /\ r.errors = 0
            /\ r.lost = 1 /\ ~AddsUp(r)

\* A job lost a batch and its result adds up all the same.
LostBatchUndetected ==
    \E j \in Jobs :
        LET r == job[j]
        IN  /\ Done(r) /\ r.result.status = "Complete"
            /\ r.lost > 0 /\ AddsUp(r)

\* Row row fails normalization: its sku or its name is missing or empty.
Missing(row, col) ==
    \/ col \notin DOMAIN row
    \/ row[col] = NoneVal
    \/ Strip(row[col]) = Empty

Rejected(row) == Missing(row, "sku") \/ Missing(row, "name")

\* A line with fewer cells than the header
Short(row) == \E col \in DOMAIN row : row[col] = NoneVal

RejectedRows(rows) == {i \in DOMAIN rows : Rejected(rows[i])}

\* Job r skipped the rejected rows of its file: it read every row, ended
\* Complete with the other rows as its total, and (no other writer beside it)
\* stored nothing under a SKU that only rejected rows carry.
SkippedRejected(r) ==
    LET rows == CsvFiles[r.csv]
        kept == {Lower(Strip(rows[i].sku)) : i \in DOMAIN rows \ RejectedRows(rows)}
    IN  /\ r.result.status = "Complete"
        /\ r.idx = Len(rows)
        /\ r.result.total = Len(rows) - Cardinality(RejectedRows(rows))
        /\ r.alone =>
             \A i \in RejectedRows(rows) :
                (~Missing(rows[i], "sku") /\ Lower(Strip(rows[i].sku)) \notin kept) =>
                    {p \in r.final : Lower(p.sku) = Lower(Strip(rows[i].sku))}
                        = {p \in r.start : Lower(p.sku) = Lower(Strip(rows[i].sku))}

(* C13: a data row that fails normalization (sku or name missing or empty,  *)
(* a line with fewer cells than the header included) is skipped and never    *)
(* fatal: the job reads on, ends Complete, and the row writes nothing.       *)
C13_RejectedRowSkipped ==
    \A j \in Jobs :
        LET r == job[j]
        IN  (Done(r) /\ RejectedRows(CsvFiles[r.csv]) # {}) => SkippedRejected(r)

\* C13 holds of the files without a short line.
EmptyCellSkipped ==
    \A j \in Jobs :
        LET r == job[j]
            rows == CsvFiles[r.csv]
        IN  (/\ Done(r) /\ RejectedRows(rows) # {}
             /\ \A i \in DOMAIN rows : ~Short(rows[i])) => SkippedRejected(r)

\* The row without a name was skipped and the row after it stored.
BlankNameSkipped ==
    \E j \in Jobs :
        LET r == job[j]
        IN  /\ Done(r) /\ r.csv = 5 /\ r.alone /\ r.lost = 0
            /\ r.result.total = 1 /\ r.result.created = 1
            /\ {p.sku : p \in r.final} = {B2}

\* The number of rows of its file that job r's normalizer rejected
Skipped(r) == Len(CsvFiles[r.csv]) - ValidCount(CsvFiles[r.csv])

(* C14: the accounting of an import reconciles: the processed count it       *)
(* returns (total) equals created + updated + skipped, skipped being the    *)
(* number of rows the normalizer rejected.  Stated of the imports that met  *)
(* no storage error, lost no batch and ran beside no other writer.          *)
C14_AccountingReconciles ==
    \A j \in Jobs :
        LET r == job[j]
        IN  (Done(r) /\ r.result.status = "Complete" /\ Clean(r)) =>
                r.result.total = r.result.created + r.result.updated + Skipped(r)

\* What does reconcile in those imports: the rows read from the file, which
\* the result does not carry.
RowsReadReconcile ==
    \A j \in Jobs :
        LET r == job[j]
        IN  (Done(r) /\ r.result.status = "Complete" /\ Clean(r)) =>
                /\ r.idx = r.result.created + r.result.updated + Skipped(r)
                /\ r.result.total = r.result.created + r.result.updated
                /\ DOMAIN r.result = {"status", "message", "total", "created", "updated"}

\* An import that skipped a row returned a total without it.
SkippedRowUncounted ==
    \E j \in Jobs :
        LET r == job[j]
        IN  /\ Done(r) /\ r.result.status = "Complete" /\ Clean(r)
            /\ Skipped(r) = 1 /\ r.result.total = 1 /\ r.result.created = 1

\* The header of rows has no sku column or no name column.
HeaderLacks(rows) ==
    /\ rows # <<>>
    /\ \E col \in {"sku", "name"} : \A i \in DOMAIN rows : col \notin DOMAIN rows[i]

\* Job r handed no batch to the store and wrote no product.
NoBatchNoWrite(r) ==
    /\ r.processed = 0 /\ r.ins = 0 /\ r.upd = 0 /\ r.lost = 0
    /\ r.alone => r.final = r.start

(* C15: an input whose header lacks the sku or the name column makes the    *)
(* job end Failed with a message, no batch attempted and no product written. *)
C15_MissingColumnFails ==
    \A j \in Jobs :
        LET r == job[j]
        IN  (Done(r) /\ HeaderLacks(CsvFiles[r.csv])) =>
                /\ r.result.status = "Failed"
                /\ "message" \in DOMAIN r.result
                /\ NoBatchNoWrite(r)

\* C15 but for the status: nothing is attempted and nothing written.
MissingColumnWritesNothing ==
    \A j \in Jobs :
        LET r == job[j]
        IN  (Done(r) /\ HeaderLacks(CsvFiles[r.csv])) => NoBatchNoWrite(r)

\* The import of a file without a sku column ended Complete.
MissingColumnCompletes ==
    \E j \in Jobs :
        LET r == job[j]
        IN  /\ Done(r) /\ HeaderLacks(CsvFiles[r.csv])
            /\ r.result.status = "Complete" /\ r.result.total = 0

(* C16: an upload that is accepted (its content passes the handler's only   *)
(* validation, the UTF-8 decoding) is answered with a job identifier, whose  *)
(* status a poller then sees become terminal.                                *)
C16_AcceptedUploadHasJob ==
    (http.op = "upload_csv" /\ http.detail # "UnicodeDecodeError")
        => http.status = 200

\* No status poll ever reports anything but Pending.
PollAlwaysPending ==
    http.op = "upload_status" => http.detail = "Pending"

\* A poll answered Pending
PolledPending ==
    http.op = "upload_status" /\ http.status = 200 /\ http.detail = "Pending"

(* C17: after every batch flush the job has published a progress snapshot   *)
(* for the status poller, and the processed counts of its successive         *)
(* snapshots never decrease.                                                 *)
C17_SnapshotPerFlush ==
    \A j \in Jobs :
        LET sn == Snapshots(job[j])
        IN  /\ Len(sn) = job[j].batches
            /\ \A i, k \in DOMAIN sn : i <= k => sn[i].processed <= sn[k].processed

\* A job flushed two batches and no poll saw anything of it.
TwoFlushesNoSnapshot ==
    \E j \in Jobs :
        /\ job[j].batches = 2 /\ job[j].processed = batch_size + 1
        /\ Snapshots(job[j]) = <<>>

\* Some product of rows has a SKU equal to sku under case-folding.
FoldTaken(sku, rows) == \E q \in rows : Lower(q.sku) = Lower(sku)

\* The request was answered with the conflict error and wrote nothing.
Conflict ==
    /\ http'.status = 400 /\ http'.detail = "SKU already exists"
    /\ ~http'.wrote
    /\ products' = products

\* What C18 says of one step
ConflictStep ==
    /\ \A p \in ProductPayloads :
         (create_product(p) /\ FoldTaken(p.sku, products)) => Conflict
    /\ \A id \in ProductIds(products) :
         \A p \in {u \in UpdatePayloads : "sku" \notin u.unset} :
            LET row == CHOOSE q \in products : q.id = id
            IN  /\ (update_product(id, p) /\ FoldTaken(p.sku, products \ {row}))
                    => Conflict
                /\ (update_product(id, p) /\ Lower(p.sku) = Lower(row.sku)) =>
                    /\ http'.detail # "SKU already exists"
                    /\ p.unset = {} =>
                        /\ http'.wrote
                        /\ \E q \in products' : q.id = id /\ q.sku = p.sku

(* C18: a create whose SKU equals a stored product's under case-folding, or  *)
(* an update to a SKU that equals a different product's under case-folding,  *)
(* is answered with the conflict error and leaves the product table as it    *)
(* was; an update to a case variant of the product's own SKU is not taken    *)
(* for a conflict and is written.                                            *)
C18_ConflictRejected == [][ConflictStep]_vars

\* An update to another product's SKU was turned away.
C18_Witness ==
    /\ http.op = "update_product" /\ http.status = 400
    /\ http.detail = "SKU already exists"
    /\ Cardinality(products) = 2

\* A create of a1 beside A1 was turned away.
CreateVariantRejected ==
    /\ http.op = "create_product" /\ http.status = 400
    /\ \E q \in products : q.sku = A1

\* A1 was renamed to its case variant a1.
OwnVariantWritten ==
    /\ http.op = "update_product" /\ http.wrote
    /\ \E q \in products : q.sku = a1 /\ q.id = 1
    /\ \E j \in Jobs : job[j].csv = 1 /\ job[j].ins = 1

(* C19: a DELETE addressed to the bulk-delete route is handled by the       *)
(* bulk-delete handler, after which the product table is empty.              *)
C19_BulkDeleteRouted ==
    [][DeleteBulkRequest =>
        /\ http'.op = "bulk_delete_products"
        /\ http'.status = 200
        /\ products' = {}]_vars

\* The bulk-delete request was answered by the id-scoped route and the
\* products are all still there.
BulkDeleteKeptProducts ==
    /\ http.op = "delete_product" /\ http.status = 422
    /\ Cardinality(products) = 2

(* C20: the test-trigger of a webhook whose URL cannot be reached is         *)
(* answered with a failure result that carries the reason in its message,   *)
(* and leaves the product table and the webhook table unchanged.            *)
C20_TestFailureReported ==
    [][\A id \in {w.id : w \in webhooks} : \A e \in TestErrors :
        test_webhook(id, e) =>
            /\ http'.op = "test_webhook"
            /\ http'.status # 200
            /\ http'.detail = <<"Webhook test failed: ", e>>
            /\ ~http'.wrote
            /\ products' = products
            /\ webhooks' = webhooks]_vars

C20_Witness ==
    /\ http.op = "test_webhook" /\ http.status = 500
    /\ http.detail = <<"Webhook test failed: ", "ConnectError">>
    /\ webhooks # {}
    /\ products # {}

\* The last row of batch b with the folded SKU of b[i]
LastInBatch(b, i) ==
    b[CHOOSE k \in DOMAIN b :
        /\ Lower(b[k].sku) = Lower(b[i].sku)
        /\ \A m \in DOMAIN b : Lower(b[m].sku) = Lower(b[i].sku) => m <= k]

\* After this step every row of the batch of job j is in the table: its SKU is
\* stored; a SKU that was not stored before is stored with the row's values,
\* and so is every SKU if no other writer committed while the job ran.
Landed(j) ==
    LET b == job[j].batch
    IN  \A i \in DOMAIN b :
            /\ \E p \in products' : Lower(p.sku) = Lower(b[i].sku)
            /\ \A p \in products' :
                (/\ Lower(p.sku) = Lower(b[i].sku)
                 /\ job[j].alone \/ ~FoldTaken(b[i].sku, products)) =>
                    /\ p.name = LastInBatch(b, i).name
                    /\ p.description = LastInBatch(b, i).description
                    /\ p.is_active

\* What C21 says of one step of job j
AllOrNothing(j) ==
    /\ (UpsertRow(j) \/ OperationalError(j)) => products' = products
    /\ Commit(j) => (Landed(j) \/ products' = products)
    /\ (job[j].pc = "batch" /\ job'[j].lost > job[j].lost) => products' = products

(* C21: a batch is all-or-nothing in the store: the committed table changes *)
(* by a batch only in the one step in which its transaction commits, and    *)
(* then every row of the batch is in it; a batch that is given up leaves    *)
(* the table as it was, and no step stores a prefix of a batch.             *)
C21_BatchAllOrNothing == [][\A j \in Jobs : AllOrNothing(j)]_vars

\* Of two imports of the same two rows one stored both and the other, turned
\* away by the uniqueness constraint, stored nothing.
C21_Witness ==
    \E j, k \in Jobs :
        /\ job[j].csv = 4 /\ job[j].ins = 2
        /\ job[k].raised = "IntegrityError" /\ job[k].lost = 1 /\ job[k].ins = 0
        /\ {p.sku : p \in products} = {A1, B2}

\* What C22 says of the step in which an attempt of job j's batch raises
\* OperationalError: nothing is stored; before the last attempt the batch is
\* begun again from its first row in a new transaction, after the last the
\* call returns 0 and 0.
RetriedOrGivenUp(j) ==
    OperationalError(j) =>
        /\ products' = products
        /\ IF job[j].retry + 1 < max_retries
           THEN /\ job'[j].pc = "batch"
                /\ job'[j].retry = job[j].retry + 1
                /\ job'[j].batch = job[j].batch
                /\ job'[j].pos = 0
                /\ job'[j].tx = NewSession
                /\ job'[j].batches = job[j].batches
           ELSE /\ job'[j].pc # "batch"
                /\ job'[j].batches = job[j].batches + 1
                /\ job'[j].created = job[j].created
                /\ job'[j].updated = job[j].updated
                /\ job'[j].ins = job[j].ins /\ job'[j].upd = job[j].upd

(* C22: on an OperationalError during a batch the transaction is rolled     *)
(* back and the whole batch retried from its first row, with at most        *)
(* max_retries attempts in all; when every attempt has failed nothing of    *)
(* the batch is stored and the call returns created = 0, updated = 0.       *)
C22_RetryWholeBatch ==
    /\ [](\A j \in Jobs : job[j].retry + 1 <= max_retries)
    /\ [][\A j \in Jobs : RetriedOrGivenUp(j)]_vars

\* All three attempts of a job's only batch failed: the job ended with no
\* product stored and zero counts.
C22_Witness ==
    \E j \in Jobs :
        LET r == job[j]
        IN  /\ Done(r) /\ r.exhausted = 1 /\ r.errors = max_retries
            /\ r.batches = 1 /\ r.alone
            /\ r.result.created = 0 /\ r.result.updated = 0
            /\ r.result.total > 0
            /\ r.final = r.start

\* Job r, racing another import only, had an INSERT turned away by the
\* uniqueness constraint.
LostRace(r) ==
    /\ Done(r) /\ r.csv \in ValidFiles
    /\ r.raised = "IntegrityError"
    /\ http.op = "none"

\* Every row of job r's file has its SKU stored.
AllStored(r) ==
    \A i \in DOMAIN CsvFiles[r.csv] :
        FoldTaken(Strip(CsvFiles[r.csv][i].sku), products)

(* C23: when two concurrent imports insert the same folded SKU, the one     *)
(* whose INSERT hits the uniqueness violation does not lose its batch: the  *)
(* row becomes an update and every other row of the batch is stored.        *)
C23_RaceRetried ==
    \A j \in Jobs :
        LostRace(job[j]) =>
            /\ job[j].lost = 0
            /\ job[j].result.status = "Complete"
            /\ AllStored(job[j])

\* The import of A1, B2 lost the race for A1 and with it the row B2.
OtherRowLost ==
    \E j \in Jobs :
        /\ LostRace(job[j]) /\ job[j].csv = 4
        /\ job[j].lost = 1 /\ job[j].errors = 0
        /\ job[j].result.created = 0 /\ job[j].result.updated = 0
        /\ {p.sku : p \in products} = {A1}

----------------------------------------------------------------------------
\* The tuples the loop of tasks.py:31-43 appends for rows, in file order
RECURSIVE Accepted(_)
Accepted(rows) ==
    IF rows = <<>> THEN <<>>
    ELSE LET n == Normalize(rows[Len(rows)])
             before == Accepted(SubSeq(rows, 1, Len(rows) - 1))
         IN  IF n.kind = "row" THEN Append(before, n.data) ELSE before

\* The batch in hand is the accepted rows that follow, in file order, the rows
\* of the calls that have returned, and every earlier call was a full batch.
InFileOrder(r) ==
    r.pc = "batch" =>
        LET acc == Accepted(SubSeq(CsvFiles[r.csv], 1, r.idx))
        IN  /\ r.processed = r.batches * batch_size
            /\ r.processed + Len(r.batch) = Len(acc)
            /\ r.batch = SubSeq(acc, r.processed + 1, Len(acc))
            /\ Len(r.batch) <= batch_size

\* While no other writer has touched the table and no batch was given up, every
\* row of the batches that have returned is in the committed table.
EarlierVisible(r) ==
    (r.pc = "batch" /\ r.alone /\ r.lost = 0) =>
        LET acc == Accepted(SubSeq(CsvFiles[r.csv], 1, r.idx))
            stored == {Lower(p.sku) : p \in products}
        IN  \A i \in 1..r.processed : Lower(acc[i].sku) \in stored

\* A call's first lookup starts from a fresh session with every earlier call
\* returned; a row whose SKU an earlier committed batch holds is updated.
LookupAfterEarlier(j) ==
    LET r == job[j]
    IN  UpsertRow(j) =>
          /\ r.pos = 0 => /\ r.tx = NewSession \/ r.tx = Flushed(NewSession)
                          /\ r.processed = r.batches * batch_size
          /\ (r.batches > 0 /\ FoldTaken(r.batch[r.pos + 1].sku, products)) =>
                /\ job'[j].bupdated = r.bupdated + 1
                /\ job'[j].tx.ins = r.tx.ins

(* C24: within one import job the batches are processed in file order and   *)
(* one at a time: the batch in hand is made of the accepted rows that       *)
(* follow the rows of the calls already returned, a call's first lookup     *)
(* happens only after every earlier call has committed or given up, and the *)
(* rows an earlier batch committed are visible to every later batch, which  *)
(* updates them instead of inserting them again.                            *)
C24_BatchesInOrder ==
    /\ [](\A j \in Jobs : InFileOrder(job[j]) /\ EarlierVisible(job[j]))
    /\ [][\A j \in Jobs : LookupAfterEarlier(j)]_vars

\* The second batch found the first batch's row and updated it.
C24_Witness ==
    \E j \in Jobs :
        /\ Done(job[j]) /\ job[j].csv = 11 /\ job[j].batches = 2
        /\ job[j].ins = batch_size /\ job[j].upd = 1 /\ job[j].lost = 0
        /\ \E p \in products : p.sku = SerialSku(1) /\ p.name = WidgetUpdated
        /\ Cardinality(products) = batch_size

----------------------------------------------------------------------------
\* The exception, other than OperationalError, that the next step of job j's
\* batch raises: at the flush before a row's lookup or at the commit.
NonTransient(j) ==
    LET r == job[j]
    IN  IF r.pc # "batch" THEN "ok"
        ELSE IF r.pos < Len(r.batch)
        THEN IF autoflush THEN FlushError(r.tx, products, r.tx.flushed + 1) ELSE "ok"
        ELSE FlushError(r.tx, products, 1)

\* What C25 says of the step of job j's batch that raises such an exception
AbortedAtOnce(j) ==
    ((UpsertRow(j) \/ Commit(j)) /\ NonTransient(j) # "ok") =>
        /\ products' = products /\ nextId' = nextId
        /\ job'[j].pc # "batch"
        /\ job'[j].tx = NewSession
        /\ job'[j].retry = job[j].retry
        /\ job'[j].batches = job[j].batches + 1
        /\ job'[j].created = job[j].created
        /\ job'[j].updated = job[j].updated
        /\ job'[j].ins = job[j].ins /\ job'[j].upd = job[j].upd
        /\ job'[j].raised = NonTransient(j)

(* C25: an exception other than OperationalError during a batch aborts the  *)
(* batch at once: in the step that raises it the transaction is dropped, no *)
(* further attempt is made, the call returns created = 0 and updated = 0,   *)
(* and the committed table is left as it was.                               *)
C25_NonTransientAborts == [][\A j \in Jobs : AbortedAtOnce(j)]_vars

\* A job whose only batch met a constraint violation on its first attempt ended
\* with zero counts and none of its rows written by it.
C25_Witness ==
    \E j \in Jobs :
        /\ Done(job[j]) /\ job[j].raised = "IntegrityError"
        /\ job[j].errors = 0 /\ job[j].retry = 0 /\ job[j].batches = 1
        /\ job[j].lost = 1 /\ job[j].ins = 0 /\ job[j].upd = 0
        /\ job[j].result.status = "Complete"
        /\ job[j].result.created = 0 /\ job[j].result.updated = 0

\* A row loaded for an update was deleted by a request before the flush: the
\* batch was given up on the StaleDataError.
StaleBatchAborted ==
    \E j \in Jobs : job[j].raised = "StaleDataError" /\ job[j].lost = 1 /\ job[j].errors = 0

----------------------------------------------------------------------------
\* Job j's transaction commits in this step.
Commits(j) == Commit(j) /\ job'[j].lost = job[j].lost

\* The counts the committing call returns are those of its transaction.
CountsOfCommit(j) ==
    /\ job'[j].created - job[j].created = job'[j].ins - job[j].ins
    /\ job'[j].updated - job[j].updated = job'[j].upd - job[j].upd
    /\ (job'[j].created - job[j].created) + (job'[j].updated - job[j].updated)
         = Len(job[j].batch)

(* C26: whenever upsert_products_batch commits a batch, the counts it       *)
(* returns are those of the committed transaction: created is the number of *)
(* rows it inserted, updated the number it updated, and they add up to the  *)
(* length of the batch, whatever attempts failed before.                    *)
C26_CountsDescribeCommit == [][\A j \in Jobs : Commits(j) => CountsOfCommit(j)]_vars

\* A commit on the first attempt returns the counts of its transaction.
CountsOfFirstAttempt ==
    [][\A j \in Jobs : (Commits(j) /\ job[j].retry = 0) => CountsOfCommit(j)]_vars

\* One row, inserted once by the retry that committed, returned as two created.
RetryCountedTwice ==
    \E j \in Jobs :
        /\ job[j].csv = 1 /\ job[j].pc = "webhooks" /\ job[j].batches = 1
        /\ job[j].errors = 1 /\ job[j].lost = 0
        /\ job[j].ins = 1 /\ job[j].upd = 0
        /\ job[j].created = 2 /\ job[j].updated = 0

============================================================================
